---- MODULE Spec2Model ----
(***************************************************************************)
(* Model of src/main.py: the transport thread (run_serial), the operator   *)
(* input thread (run_command) and the main loop, which share the globals   *)
(* command, data, tankNumber, dataUpdate and four threading.Event objects; *)
(* the startup of __main__ with its connect loop; and crc16_mcrf4xx.       *)
(*                                                                         *)
(* Text is modelled as a sequence of one-character strings, so that        *)
(* slicing, splitting and number parsing are computed as Python computes   *)
(* them.  A float is modelled by its value in tenths (12.5 is 125).        *)
(***************************************************************************)
EXTENDS Integers, Sequences, FiniteSets, TLC

\* The operator answers the ">> " prompt at most MaxCmds times in a run.
MaxCmds == 2

\* ------------------------------------------------------------------------
\* Operator input and inbound lines the runs draw from.

\* Answers to the ">> " prompt: the six commands of run_command and one
\* text the if/elif chain does not know.
Commands == {"quit", "t", "c1", "c2", "c3", "r", "x"}

KnownCommands == {"quit", "t", "c1", "c2", "c3", "r"}

\* Answers to "Tank number >> ".
Tanks == {<<"0">>, <<"1">>}

\* Answers to "Mass 1 (lb) >> " / "Mass 2 (lb) >> ": a number and a
\* text that is no number.
Masses == {<<"1", ".", "5">>, <<"a", "b", "c">>}

\* What ser.readline().decode() returns in the runs of Spec: nothing within
\* the read timeout, a telemetry line, a garbled line.
InboundLines ==
    { <<>>,
      <<"[", "t", "a", "n", "k", ":", "1", ";", "d", "a", "t", "a", ":", "2", ".", "5", "]">>,
      <<"[", "t", "a", "n", "k", ":", "1", ";", "d", "a" >> }

\* ------------------------------------------------------------------------
\* Python text operations used by the decoder of run_serial.

Digits == {"0", "1", "2", "3", "4", "5", "6", "7", "8", "9"}

Whitespace == {" ", "\n", "\r", "\t"}

DigitVal(c) ==
    CASE c = "0" -> 0 [] c = "1" -> 1 [] c = "2" -> 2 [] c = "3" -> 3
      [] c = "4" -> 4 [] c = "5" -> 5 [] c = "6" -> 6 [] c = "7" -> 7
      [] c = "8" -> 8 [] c = "9" -> 9

\* s[1:]: the slice without its end.
SliceFirstOnly(s) == IF Len(s) <= 1 THEN <<>> ELSE SubSeq(s, 2, Len(s))

\* s[1:-1]
Slice1m1(s) == IF Len(s) <= 2 THEN <<>> ELSE SubSeq(s, 2, Len(s) - 1)

\* s.split(sep) for a one-character separator: the list of fields.
RECURSIVE SplitFrom(_, _, _, _)
SplitFrom(s, sep, i, cur) ==
    IF i > Len(s) THEN <<cur>>
    ELSE IF s[i] = sep THEN <<cur>> \o SplitFrom(s, sep, i + 1, <<>>)
    ELSE SplitFrom(s, sep, i + 1, Append(cur, s[i]))

Split(s, sep) == SplitFrom(s, sep, 1, <<>>)

\* lst[i] for a Python index i >= 0 exists (no IndexError).
HasItem(lst, i) == i + 1 <= Len(lst)

\* lst[i] for a Python index i >= 0.
Item(lst, i) == lst[i + 1]

\* s.strip() as int() and float() apply it to their argument.
RECURSIVE LStrip(_)
LStrip(s) == IF s # <<>> /\ Head(s) \in Whitespace THEN LStrip(Tail(s)) ELSE s

RECURSIVE RStrip(_)
RStrip(s) ==
    IF s # <<>> /\ s[Len(s)] \in Whitespace THEN RStrip(SubSeq(s, 1, Len(s) - 1)) ELSE s

Strip(s) == RStrip(LStrip(s))

RECURSIVE DigitsValue(_, _)
DigitsValue(s, acc) ==
    IF s = <<>> THEN acc ELSE DigitsValue(Tail(s), acc * 10 + DigitVal(Head(s)))

AllDigits(s) == \A i \in 1..Len(s) : s[i] \in Digits

\* The text after an optional sign, and the sign.
Unsigned(s) == IF s # <<>> /\ Head(s) \in {"+", "-"} THEN Tail(s) ELSE s

SignOf(s) == IF s # <<>> /\ Head(s) = "-" THEN -1 ELSE 1

\* int(s) succeeds: optional whitespace, optional sign, one or more digits.
IsInt(s) == LET u == Unsigned(Strip(s)) IN u # <<>> /\ AllDigits(u)

\* int(s) when it succeeds.
IntOf(s) == SignOf(Strip(s)) * DigitsValue(Unsigned(Strip(s)), 0)

\* float(s) succeeds, for decimal text: optional whitespace, optional sign,
\* digits with at most one point and at least one digit.  (The model keeps
\* tenths, so it reads text with at most one fractional digit.)
IsFloat(s) ==
    LET fs == Split(Unsigned(Strip(s)), ".")
        ip == fs[1]
        fp == IF Len(fs) = 2 THEN fs[2] ELSE <<>>
    IN  /\ Len(fs) <= 2
        /\ AllDigits(ip) /\ AllDigits(fp)
        /\ Len(ip) + Len(fp) >= 1
        /\ Len(fp) <= 1

\* float(s) when it succeeds, in tenths.
FloatOf(s) ==
    LET fs == Split(Unsigned(Strip(s)), ".")
        ip == fs[1]
        fp == IF Len(fs) = 2 THEN fs[2] ELSE <<>>
    IN  SignOf(Strip(s)) * (DigitsValue(ip, 0) * 10 + DigitsValue(fp, 0))

\* lst[i] = v on a Python list of n items is no IndexError: i in -n..n-1.
IndexOk(n, i) == i >= -n /\ i < n

\* The item lst[i] names, counted from 0: a negative i counts from the end.
ListIndex(n, i) == IF i >= 0 THEN i ELSE n + i

\* The try block of run_serial on one non-empty line succeeds (no exception
\* reaches "except: pass").
DecodeOk(line, n) ==
    LET outputParsed == Split(Slice1m1(line), ";")
    IN  /\ HasItem(outputParsed, 1)
        /\ HasItem(Split(Item(outputParsed, 0), ":"), 1)
        /\ IsInt(Item(Split(Item(outputParsed, 0), ":"), 1))
        /\ HasItem(Split(Item(outputParsed, 1), ":"), 1)
        /\ IsFloat(Item(Split(Item(outputParsed, 1), ":"), 1))
        /\ IndexOk(n, IntOf(Item(Split(Item(outputParsed, 0), ":"), 1)))

\* The table after the try block of run_serial on one non-empty line; any
\* exception leaves the table as it was.
Decode(line, table) ==
    LET outputParsed == Split(Slice1m1(line), ";")
        tankNo == IntOf(Item(Split(Item(outputParsed, 0), ":"), 1))
        dataNo == FloatOf(Item(Split(Item(outputParsed, 1), ":"), 1))
    IN  IF DecodeOk(line, Len(table))
        THEN [table EXCEPT ![ListIndex(Len(table), tankNo) + 1] = dataNo]
        ELSE table

\* ------------------------------------------------------------------------
\* State.

VARIABLES
    command,      \* global command (main.py:31)
    data,         \* global data (main.py:32)
    tankNumber,   \* global tankNumber (main.py:33)
    dataUpdate,   \* global dataUpdate, the telemetry table (main.py:34)
    ev_command,   \* accept signal (main.py:36)
    ev_read_cmd,  \* done signal (main.py:37)
    ev_quit_sig,  \* shutdown signal (main.py:38)
    ev_quit_ack,  \* shutdown acknowledgement (main.py:39)
    pcSer,        \* where the transport thread is in run_serial
    withData,     \* run_serial: which branch of the if at line 168 was taken
    message,      \* run_serial: local message, as the pieces of the f-string
    pcCmd,        \* where the input thread is in run_command
    pcMain,       \* where the main loop is
    proc,         \* the process: "running" or "killed"
    stdinOpen,    \* sys.stdin is open (exit() closes it before raising SystemExit)
    plotOpen,     \* the figure is open (plot.close(fig) not yet called)
    wire,         \* the last message handed to ser.write, <<>> before the first
    nCmds,        \* history: answers given at the ">> " prompt
    nWrites,      \* history: calls of ser.write that returned
    nDone,        \* history: calls of ev_read_cmd.set()
    winOpen,      \* history: the input thread has set ev_command and its wait has not returned
    winWrites,    \* history: calls of ser.write since the input thread last set ev_command
    lastWait,     \* history: how the last ev_read_cmd.wait returned
    quitWait,     \* history: how ev_quit_ack.wait(1) returned
    inputs,       \* history: the prompts answered for the command being gathered
    accepted,     \* history: <<command, tankNumber, data>> at each ev_command.set(), when logged
    decLine,      \* history: arduinoOutput of the last readline, when logged
    decBefore,    \* history: dataUpdate as it was before the last readline, when logged
    max_tries,    \* args.max_tries as parse_args returns it (main.py:274)
    num_tanks,    \* args.num_tanks as parse_args returns it
    tries,        \* __main__: tries (main.py:273)
    success,      \* __main__: success (main.py:275)
    sleeps,       \* history: the arguments of time.sleep in check_port_presence
    crcSeed,      \* crc16_mcrf4xx: argument crc
    crcData,      \* crc16_mcrf4xx: argument data
    crcLen,       \* crc16_mcrf4xx: argument length
    crcOut,       \* crc16_mcrf4xx: crc as it stands, and whether the call raised
    crcIndex,     \* crc16_mcrf4xx: index
    crcLeft,      \* crc16_mcrf4xx: length as the loop counts it down
    crcRef,       \* history: the reference CRC-16/MCRF4XX of the seed and the bytes consumed
    crcPc         \* "idle", "call", "loop" or "returned"

vars == <<command, data, tankNumber, dataUpdate, ev_command, ev_read_cmd,
          ev_quit_sig, ev_quit_ack, pcSer, withData, message, pcCmd, pcMain,
          proc, stdinOpen, plotOpen, wire, nCmds, nWrites, nDone, winOpen,
          winWrites, lastWait, quitWait, inputs, accepted, decLine, decBefore,
          max_tries, num_tanks, tries, success, sleeps, crcSeed, crcData,
          crcLen, crcOut, crcIndex, crcLeft, crcRef, crcPc>>

globalVars == <<command, data, tankNumber>>
serVars == <<pcSer, withData, message>>
histVars == <<nCmds, nWrites, nDone, winOpen, winWrites, lastWait, quitWait, inputs,
              accepted>>
startVars == <<max_tries, num_tanks, tries, success, sleeps>>
crcVars == <<crcSeed, crcData, crcLen, crcOut, crcIndex, crcLeft, crcRef, crcPc>>
decVars == <<decLine, decBefore>>
auxVars == <<startVars, crcVars, decVars>>

\* An option of the command line as parse_args returns it: the default is
\* the plain number given as default=, an option given on the command line
\* is a list of one element because of nargs=1 (main.py:237-267).
DefaultMaxTries == 5

DefaultNumTanks == 2

OptDefault(n) == [given |-> FALSE, n |-> n]

OptGiven(n) == [given |-> TRUE, n |-> n]

\* The module is loaded: the globals and the four events exist, nothing has
\* been read or written (main.py:31-39).
ModuleLoaded ==
    /\ command = ""
    /\ data = <<>>
    /\ tankNumber = <<>>
    /\ dataUpdate = <<0, 0>>
    /\ ev_command = FALSE
    /\ ev_read_cmd = FALSE
    /\ ev_quit_sig = FALSE
    /\ ev_quit_ack = FALSE
    /\ withData = FALSE
    /\ message = <<>>
    /\ stdinOpen = TRUE
    /\ wire = <<>>
    /\ nCmds = 0
    /\ nWrites = 0
    /\ nDone = 0
    /\ winOpen = FALSE
    /\ winWrites = 0
    /\ lastWait = "none"
    /\ quitWait = "none"
    /\ inputs = <<>>
    /\ accepted = <<>>
    /\ decLine = <<>>
    /\ decBefore = <<0, 0>>

\* No call of crc16_mcrf4xx is under way: the program never calls it.
CrcIdle ==
    /\ crcSeed = 0
    /\ crcData = <<>>
    /\ crcLen = 0
    /\ crcOut = [raised |-> FALSE, crc |-> <<>>]
    /\ crcIndex = 0
    /\ crcLeft = 0
    /\ crcRef = <<>>
    /\ crcPc = "idle"

\* The startup went through with the default options and its first probe
\* answered (main.py:273-287).
StartDone ==
    /\ max_tries = OptDefault(DefaultMaxTries)
    /\ num_tanks = OptDefault(DefaultNumTanks)
    /\ tries = 1
    /\ success = TRUE
    /\ sleeps = <<>>

\* The state when both threads have been started and the main loop begins
\* (main.py:31-39, 318-326).
Init ==
    /\ ModuleLoaded
    /\ pcSer = "readline"
    /\ pcCmd = "prompt"
    /\ pcMain = "pause"
    /\ proc = "running"
    /\ plotOpen = TRUE
    /\ StartDone
    /\ CrcIdle

\* ------------------------------------------------------------------------
\* The transport thread: run_serial (main.py:135-176).

Running == proc = "running"

\* Line 144-156: readline returns (an empty text on a read timeout), and a
\* non-empty line goes through the decoder.
SerReadline(line, log) ==
    /\ Running /\ pcSer = "readline"
    /\ dataUpdate' = IF line # <<>> THEN Decode(line, dataUpdate) ELSE dataUpdate
    /\ pcSer' = "is_set"
    /\ decLine' = IF log THEN line ELSE decLine
    /\ decBefore' = IF log THEN dataUpdate ELSE decBefore
    /\ UNCHANGED <<globalVars, ev_command, ev_read_cmd, ev_quit_sig, ev_quit_ack,
                   withData, message, pcCmd, pcMain, proc, stdinOpen, plotOpen,
                   wire, histVars, startVars, crcVars>>

\* Lines 158-164: readline raises SerialTimeoutException or SerialException;
\* the handler prints and calls exit(1).  In a thread that is not the main
\* thread exit(1) closes sys.stdin and raises SystemExit, which ends this
\* thread only: the process goes on.
SerReadFault ==
    /\ Running /\ pcSer = "readline"
    /\ pcSer' = "exited"
    /\ stdinOpen' = FALSE
    /\ UNCHANGED <<globalVars, dataUpdate, ev_command, ev_read_cmd, ev_quit_sig,
                   ev_quit_ack, withData, message, pcCmd, pcMain, proc, plotOpen,
                   wire, histVars,
                   auxVars>>

\* Line 166: if ev_command.is_set()
SerIsSet ==
    /\ Running /\ pcSer = "is_set"
    /\ pcSer' = IF ev_command THEN "clear" ELSE "readline"
    /\ UNCHANGED <<globalVars, dataUpdate, ev_command, ev_read_cmd, ev_quit_sig,
                   ev_quit_ack, withData, message, pcCmd, pcMain, proc, stdinOpen,
                   plotOpen, wire, histVars,
                   auxVars>>

\* Line 167: ev_command.clear()
SerClear ==
    /\ Running /\ pcSer = "clear"
    /\ ev_command' = FALSE
    /\ pcSer' = "test1"
    /\ UNCHANGED <<globalVars, dataUpdate, ev_read_cmd, ev_quit_sig, ev_quit_ack,
                   withData, message, pcCmd, pcMain, proc, stdinOpen, plotOpen,
                   wire, histVars,
                   auxVars>>

\* Line 168, left operand: command == "c1"
SerTest1 ==
    /\ Running /\ pcSer = "test1"
    /\ IF command = "c1"
       THEN withData' = TRUE /\ pcSer' = "fmt_cmd"
       ELSE withData' = withData /\ pcSer' = "test2"
    /\ UNCHANGED <<globalVars, dataUpdate, ev_command, ev_read_cmd, ev_quit_sig,
                   ev_quit_ack, message, pcCmd, pcMain, proc, stdinOpen, plotOpen,
                   wire, histVars,
                   auxVars>>

\* Line 168, right operand: command == "c2"
SerTest2 ==
    /\ Running /\ pcSer = "test2"
    /\ withData' = (command = "c2")
    /\ pcSer' = "fmt_cmd"
    /\ UNCHANGED <<globalVars, dataUpdate, ev_command, ev_read_cmd, ev_quit_sig,
                   ev_quit_ack, message, pcCmd, pcMain, proc, stdinOpen, plotOpen,
                   wire, histVars,
                   auxVars>>

\* Lines 169/171: the f-string reads command ...
SerFmtCmd ==
    /\ Running /\ pcSer = "fmt_cmd"
    /\ message' = <<command, "(">>
    /\ pcSer' = "fmt_tank"
    /\ UNCHANGED <<globalVars, dataUpdate, ev_command, ev_read_cmd, ev_quit_sig,
                   ev_quit_ack, withData, pcCmd, pcMain, proc, stdinOpen, plotOpen,
                   wire, histVars,
                   auxVars>>

\* ... then tankNumber (line 171 ends the message here) ...
SerFmtTank ==
    /\ Running /\ pcSer = "fmt_tank"
    /\ IF withData
       THEN message' = message \o <<tankNumber, ")">> /\ pcSer' = "fmt_data"
       ELSE message' = message \o <<tankNumber, ")", "\n">> /\ pcSer' = "set_done"
    /\ UNCHANGED <<globalVars, dataUpdate, ev_command, ev_read_cmd, ev_quit_sig,
                   ev_quit_ack, withData, pcCmd, pcMain, proc, stdinOpen, plotOpen,
                   wire, histVars,
                   auxVars>>

\* ... then data (line 169).
SerFmtData ==
    /\ Running /\ pcSer = "fmt_data"
    /\ message' = message \o <<":", data, "\n">>
    /\ pcSer' = "set_done"
    /\ UNCHANGED <<globalVars, dataUpdate, ev_command, ev_read_cmd, ev_quit_sig,
                   ev_quit_ack, withData, pcCmd, pcMain, proc, stdinOpen, plotOpen,
                   wire, histVars,
                   auxVars>>

\* Line 175: ev_read_cmd.set()
SerSetDone ==
    /\ Running /\ pcSer = "set_done"
    /\ ev_read_cmd' = TRUE
    /\ nDone' = nDone + 1
    /\ pcSer' = "write"
    /\ UNCHANGED <<globalVars, dataUpdate, ev_command, ev_quit_sig, ev_quit_ack,
                   withData, message, pcCmd, pcMain, proc, stdinOpen, plotOpen,
                   wire, nCmds, nWrites, winOpen, winWrites, lastWait, quitWait,
                   inputs,
                   accepted, auxVars>>

\* Line 176: ser.write(message.encode()) returns.
SerWrite ==
    /\ Running /\ pcSer = "write"
    /\ wire' = message
    /\ nWrites' = nWrites + 1
    /\ winWrites' = IF winOpen THEN winWrites + 1 ELSE winWrites
    /\ pcSer' = "readline"
    /\ UNCHANGED <<globalVars, dataUpdate, ev_command, ev_read_cmd, ev_quit_sig,
                   ev_quit_ack, withData, message, pcCmd, pcMain, proc, stdinOpen,
                   plotOpen, nCmds, nDone, winOpen, lastWait, quitWait, inputs,
                   accepted, auxVars>>

\* Line 176: ser.write raises (SerialException, SerialTimeoutException).
\* No handler encloses the call: the exception ends this thread only.
SerWriteFault ==
    /\ Running /\ pcSer = "write"
    /\ pcSer' = "crashed"
    /\ UNCHANGED <<globalVars, dataUpdate, ev_command, ev_read_cmd, ev_quit_sig,
                   ev_quit_ack, withData, message, pcCmd, pcMain, proc, stdinOpen,
                   plotOpen, wire, histVars,
                   auxVars>>

\* ------------------------------------------------------------------------
\* The input thread: run_command (main.py:179-223).

\* Mutant of NeedsMass: the c1 branch forgets its mass prompt.
NeedsMassOnlyC2(c) == c = "c2"

\* The commands whose branch asks for a mass (lines 197-206).
NeedsMass(c) == c \in {"c1", "c2"}

\* The commands whose branch clears data before it asks for the tank
\* (lines 207-216); "t" clears it after (lines 192-196).
ClearsFirst(c) == c \in {"c3", "r"}

\* Where the if/elif chain of lines 187-218 goes for an answer c.
AfterPrompt(c) ==
    IF c = "quit" THEN "quit_set"
    ELSE IF c \in {"t", "c1", "c2"} THEN "tank"
    ELSE IF c \in {"c3", "r"} THEN "clr"
    ELSE "prompt"

\* Line 186: command = input(">> "), and the branch taken.  An answer the
\* chain does not know prints "Invalid command" and, valid being False,
\* comes back here (lines 217-220).
CmdPrompt(c) ==
    /\ Running /\ pcCmd = "prompt" /\ stdinOpen
    /\ nCmds < MaxCmds
    /\ command' = c
    /\ nCmds' = nCmds + 1
    /\ inputs' = <<>>
    /\ pcCmd' = AfterPrompt(c)
    /\ UNCHANGED <<data, tankNumber, dataUpdate, ev_command, ev_read_cmd,
                   ev_quit_sig, ev_quit_ack, serVars, pcMain, proc, stdinOpen,
                   plotOpen, wire, nWrites, nDone, winOpen, winWrites, lastWait,
                   quitWait,
                   accepted, auxVars>>

\* Lines 195, 200, 205, 211, 216: tankNumber = input("Tank number >> ")
CmdTank(tk) ==
    /\ Running /\ pcCmd = "tank" /\ stdinOpen
    /\ tankNumber' = tk
    /\ inputs' = Append(inputs, "tank")
    /\ pcCmd' = IF NeedsMass(command) THEN "mass"
                ELSE IF ClearsFirst(command) THEN "accept"
                ELSE "clr"
    /\ UNCHANGED <<command, data, dataUpdate, ev_command, ev_read_cmd, ev_quit_sig,
                   ev_quit_ack, serVars, pcMain, proc, stdinOpen, plotOpen, wire,
                   nCmds, nWrites, nDone, winOpen, winWrites, lastWait, quitWait,
                   accepted, auxVars>>

\* Lines 201, 206: data = input("Mass n (lb) >> "); the answer is stored as
\* typed, whatever it is.
CmdMass(m) ==
    /\ Running /\ pcCmd = "mass" /\ stdinOpen
    /\ data' = m
    /\ inputs' = Append(inputs, "mass")
    /\ pcCmd' = "accept"
    /\ UNCHANGED <<command, tankNumber, dataUpdate, ev_command, ev_read_cmd,
                   ev_quit_sig, ev_quit_ack, serVars, pcMain, proc, stdinOpen,
                   plotOpen, wire, nCmds, nWrites, nDone, winOpen, winWrites,
                   lastWait, quitWait,
                   accepted, auxVars>>

\* Lines 196, 210, 215: data = ""
CmdClearData ==
    /\ Running /\ pcCmd = "clr"
    /\ data' = <<>>
    /\ pcCmd' = IF ClearsFirst(command) THEN "tank" ELSE "accept"
    /\ UNCHANGED <<command, tankNumber, dataUpdate, ev_command, ev_read_cmd,
                   ev_quit_sig, ev_quit_ack, serVars, pcMain, proc, stdinOpen,
                   plotOpen, wire, histVars,
                   auxVars>>

\* input() on the closed sys.stdin raises ValueError, which ends the input
\* thread (lines 186, 195, 200, 201, 205, 206, 211, 216).
CmdInputClosed ==
    /\ Running /\ pcCmd \in {"prompt", "tank", "mass"} /\ ~stdinOpen
    /\ pcCmd' = "crashed"
    /\ UNCHANGED <<globalVars, dataUpdate, ev_command, ev_read_cmd, ev_quit_sig,
                   ev_quit_ack, serVars, pcMain, proc, stdinOpen, plotOpen, wire,
                   histVars,
                   auxVars>>

\* Line 221: ev_command.set()
CmdAccept(log) ==
    /\ Running /\ pcCmd = "accept"
    /\ ev_command' = TRUE
    /\ winOpen' = TRUE
    /\ winWrites' = 0
    /\ accepted' = IF log THEN Append(accepted, <<command, tankNumber, data>>)
                          ELSE accepted
    /\ pcCmd' = "wait"
    /\ UNCHANGED <<globalVars, dataUpdate, ev_read_cmd, ev_quit_sig, ev_quit_ack,
                   serVars, pcMain, proc, stdinOpen, plotOpen, wire, nCmds, nWrites,
                   nDone, lastWait, quitWait, inputs,
                   auxVars>>

\* Line 222: ev_read_cmd.wait(cl_args.timeout * 2) returns because the flag
\* is set.
CmdWaitDone ==
    /\ Running /\ pcCmd = "wait"
    /\ ev_read_cmd
    /\ lastWait' = "done"
    /\ winOpen' = FALSE
    /\ pcCmd' = "clear"
    /\ UNCHANGED <<globalVars, dataUpdate, ev_command, ev_read_cmd, ev_quit_sig,
                   ev_quit_ack, serVars, pcMain, proc, stdinOpen, plotOpen, wire,
                   nCmds, nWrites, nDone, winWrites, quitWait, inputs,
                   accepted, auxVars>>

\* Mutant of CmdWaitTimeout: the wait is given no timeout, so it returns
\* only when the flag is set.
CmdWaitNoTimeout == FALSE /\ UNCHANGED vars

\* Line 222: the wait returns because 2 x timeout passed with the flag clear.
CmdWaitTimeout ==
    /\ Running /\ pcCmd = "wait"
    /\ ~ev_read_cmd
    /\ lastWait' = "timeout"
    /\ winOpen' = FALSE
    /\ pcCmd' = "clear"
    /\ UNCHANGED <<globalVars, dataUpdate, ev_command, ev_read_cmd, ev_quit_sig,
                   ev_quit_ack, serVars, pcMain, proc, stdinOpen, plotOpen, wire,
                   nCmds, nWrites, nDone, winWrites, quitWait, inputs,
                   accepted, auxVars>>

\* Line 223: ev_read_cmd.clear(), and back to line 186.
CmdClearDone ==
    /\ Running /\ pcCmd = "clear"
    /\ ev_read_cmd' = FALSE
    /\ pcCmd' = "prompt"
    /\ UNCHANGED <<globalVars, dataUpdate, ev_command, ev_quit_sig, ev_quit_ack,
                   serVars, pcMain, proc, stdinOpen, plotOpen, wire, histVars,
                   auxVars>>

\* Line 188: ev_quit_sig.set()
CmdQuitSet ==
    /\ Running /\ pcCmd = "quit_set"
    /\ ev_quit_sig' = TRUE
    /\ pcCmd' = "quit_wait"
    /\ UNCHANGED <<globalVars, dataUpdate, ev_command, ev_read_cmd, ev_quit_ack,
                   serVars, pcMain, proc, stdinOpen, plotOpen, wire, histVars,
                   auxVars>>

\* Line 189: ev_quit_ack.wait(1) returns because the flag is set.
CmdQuitWaitAck ==
    /\ Running /\ pcCmd = "quit_wait"
    /\ ev_quit_ack
    /\ quitWait' = "ack"
    /\ pcCmd' = "quit_clear"
    /\ UNCHANGED <<globalVars, dataUpdate, ev_command, ev_read_cmd, ev_quit_sig,
                   ev_quit_ack, serVars, pcMain, proc, stdinOpen, plotOpen, wire,
                   nCmds, nWrites, nDone, winOpen, winWrites, lastWait, inputs,
                   accepted, auxVars>>

\* Line 189: the wait returns because one second passed with the flag clear.
CmdQuitWaitTimeout ==
    /\ Running /\ pcCmd = "quit_wait"
    /\ ~ev_quit_ack
    /\ quitWait' = "timeout"
    /\ pcCmd' = "quit_clear"
    /\ UNCHANGED <<globalVars, dataUpdate, ev_command, ev_read_cmd, ev_quit_sig,
                   ev_quit_ack, serVars, pcMain, proc, stdinOpen, plotOpen, wire,
                   nCmds, nWrites, nDone, winOpen, winWrites, lastWait, inputs,
                   accepted, auxVars>>

\* Line 190: ev_quit_ack.clear()
CmdQuitClear ==
    /\ Running /\ pcCmd = "quit_clear"
    /\ ev_quit_ack' = FALSE
    /\ pcCmd' = "kill"
    /\ UNCHANGED <<globalVars, dataUpdate, ev_command, ev_read_cmd, ev_quit_sig,
                   serVars, pcMain, proc, stdinOpen, plotOpen, wire, histVars,
                   auxVars>>

\* Line 191: kill(getpid(), signal.SIGKILL): the process, all threads with
\* it, is gone.
CmdKill ==
    /\ Running /\ pcCmd = "kill"
    /\ proc' = "killed"
    /\ UNCHANGED <<globalVars, dataUpdate, ev_command, ev_read_cmd, ev_quit_sig,
                   ev_quit_ack, serVars, pcCmd, pcMain, stdinOpen, plotOpen, wire,
                   histVars,
                   auxVars>>

\* ------------------------------------------------------------------------
\* The main loop (main.py:326-332).

\* Lines 327-328: plot.pause(0.1), then if ev_quit_sig.is_set()
MainPause ==
    /\ Running /\ pcMain = "pause"
    /\ pcMain' = IF ev_quit_sig THEN "close" ELSE "pause"
    /\ UNCHANGED <<globalVars, dataUpdate, ev_command, ev_read_cmd, ev_quit_sig,
                   ev_quit_ack, serVars, pcCmd, proc, stdinOpen, plotOpen, wire,
                   histVars,
                   auxVars>>

\* Mutant of MainClose: the main loop acknowledges without closing the
\* figure.
MainCloseMissing ==
    /\ Running /\ pcMain = "close"
    /\ pcMain' = "clear_sig"
    /\ UNCHANGED <<globalVars, dataUpdate, ev_command, ev_read_cmd, ev_quit_sig,
                   ev_quit_ack, serVars, pcCmd, proc, stdinOpen, plotOpen, wire,
                   histVars,
                   auxVars>>

\* Line 329: plot.close(fig)
MainClose ==
    /\ Running /\ pcMain = "close"
    /\ plotOpen' = FALSE
    /\ pcMain' = "clear_sig"
    /\ UNCHANGED <<globalVars, dataUpdate, ev_command, ev_read_cmd, ev_quit_sig,
                   ev_quit_ack, serVars, pcCmd, proc, stdinOpen, wire, histVars,
                   auxVars>>

\* Line 330: ev_quit_sig.clear()
MainClearSig ==
    /\ Running /\ pcMain = "clear_sig"
    /\ ev_quit_sig' = FALSE
    /\ pcMain' = "ack"
    /\ UNCHANGED <<globalVars, dataUpdate, ev_command, ev_read_cmd, ev_quit_ack,
                   serVars, pcCmd, proc, stdinOpen, plotOpen, wire, histVars,
                   auxVars>>

\* Line 331: ev_quit_ack.set()
MainAck ==
    /\ Running /\ pcMain = "ack"
    /\ ev_quit_ack' = TRUE
    /\ pcMain' = "pause"
    /\ UNCHANGED <<globalVars, dataUpdate, ev_command, ev_read_cmd, ev_quit_sig,
                   serVars, pcCmd, proc, stdinOpen, plotOpen, wire, histVars,
                   auxVars>>

\* ------------------------------------------------------------------------
\* The program.

\* One step of the transport thread, its inbound line drawn from lines.
SerialStep(lines, log) ==
    \/ \E line \in lines : SerReadline(line, log)
    \/ SerReadFault
    \/ SerIsSet
    \/ SerClear
    \/ SerTest1
    \/ SerTest2
    \/ SerFmtCmd
    \/ SerFmtTank
    \/ SerFmtData
    \/ SerSetDone
    \/ SerWrite
    \/ SerWriteFault

\* One step of the input thread, the operator's answer (if the step is an
\* input) drawn from cmds, tanks, masses.
InputStep(cmds, tanks, masses, log) ==
    \/ \E c \in cmds : CmdPrompt(c)
    \/ \E tk \in tanks : CmdTank(tk)
    \/ \E m \in masses : CmdMass(m)
    \/ CmdClearData
    \/ CmdInputClosed
    \/ CmdAccept(log)
    \/ CmdWaitDone
    \/ CmdWaitTimeout
    \/ CmdClearDone
    \/ CmdQuitSet
    \/ CmdQuitWaitAck
    \/ CmdQuitWaitTimeout
    \/ CmdQuitClear
    \/ CmdKill

MainStep ==
    \/ MainPause
    \/ MainClose
    \/ MainClearSig
    \/ MainAck

Next ==
    \/ SerialStep(InboundLines, FALSE)
    \/ InputStep(Commands, Tanks, Masses, FALSE)
    \/ MainStep

Spec == Init /\ [][Next]_vars

\* The runs the liveness claims are checked on draw the operator's answers
\* and the inbound lines from these smaller sets.
LiveCommands == {"quit", "t", "c1", "x"}

LiveTanks == {<<"0">>}

LiveMasses == {<<"1", ".", "5">>}

LiveLines == {<<>>, <<"[", "t", "a", "n", "k", ":", "1", ";", "d", "a" >>}

LiveNext ==
    \/ SerialStep(LiveLines, FALSE)
    \/ InputStep(LiveCommands, LiveTanks, LiveMasses, FALSE)
    \/ MainStep

\* The input thread is scheduled, and its waits are timed: a wait returns
\* when its flag is set or its time is up, and the clear that follows is
\* executed.  Nothing is assumed of the transport thread, which may stop or
\* block in readline or write for ever, nor of the operator.
LiveSpec ==
    /\ Init /\ [][LiveNext]_vars
    /\ WF_vars(CmdWaitDone \/ CmdWaitTimeout)
    /\ WF_vars(CmdClearDone)

\* ------------------------------------------------------------------------
\* Frames (the pieces of the f-strings of lines 169 and 171).

FrameOpcode(f) == f[1]

FrameHasData(f) == Len(f) = 7

FrameData(f) == f[6]

\* The transport thread is between ev_command.clear() and the return of
\* ser.write for the command it took.
SerSending == pcSer \in {"test1", "test2", "fmt_cmd", "fmt_tank", "fmt_data", "set_done", "write"}

\* The transport thread has ended on a transport fault.
SerStopped == pcSer \in {"exited", "crashed"}

NumMass(ins) == Cardinality({i \in 1..Len(ins) : ins[i] = "mass"})

\* ------------------------------------------------------------------------
\* The decoder on its own: the transport thread reads line after line and no
\* command is pending (main.py:142-156, 166).

LineTank1 == <<"[", "t", "a", "n", "k", ":", "1", ";", "d", "a", "t", "a", ":", "1", "2", ".", "5", "]">>

LineTank0 == <<"[", "t", "a", "n", "k", ":", "0", ";", "d", "a", "t", "a", ":", "2", ".", "5", "]">>

LineTank0Whole == <<"[", "t", "a", "n", "k", ":", "0", ";", "d", "a", "t", "a", ":", "3", "]">>

\* A telemetry line with the newline readline leaves at its end.
LineWithNewline == <<"[", "t", "a", "n", "k", ":", "1", ";", "d", "a", "t", "a", ":", "1", "2", ".", "5", "]", "\n">>

LineNoSemicolon == <<"[", "t", "a", "n", "k", ":", "1", "d", "a", "t", "a", ":", "1", "2", ".", "5", "]">>

LineNoColon == <<"[", "t", "a", "n", "k", "1", ";", "d", "a", "t", "a", ":", "1", "2", ".", "5", "]">>

LineTankNotNumber == <<"[", "t", "a", "n", "k", ":", "x", ";", "d", "a", "t", "a", ":", "1", "2", ".", "5", "]">>

LineValueNotNumber == <<"[", "t", "a", "n", "k", ":", "1", ";", "d", "a", "t", "a", ":", "a", "b", "c", "]">>

LineEmpty == <<>>

LineTruncated == <<"[", "t", "a", "n", "k", ":", "1", ";", "d", "a", "t", "a", ":", "1", "2", ".", "5">>

LineTankTooLarge == <<"[", "t", "a", "n", "k", ":", "2", ";", "d", "a", "t", "a", ":", "2", ".", "5", "]">>

LineTankMinusOne == <<"[", "t", "a", "n", "k", ":", "-", "1", ";", "d", "a", "t", "a", ":", "2", ".", "5", "]">>

LineTankMinusThree == <<"[", "t", "a", "n", "k", ":", "-", "3", ";", "d", "a", "t", "a", ":", "2", ".", "5", "]">>

WellFormedLines == {LineTank1, LineTank0, LineTank0Whole}

MalformedLines ==
    {LineNoSemicolon, LineNoColon, LineTankNotNumber, LineValueNotNumber,
     LineEmpty, LineTruncated}

OutOfRangeLines == {LineTankTooLarge, LineTankMinusOne, LineTankMinusThree}

DecoderLines ==
    WellFormedLines \cup MalformedLines \cup OutOfRangeLines \cup {LineWithNewline}

DecodeNext ==
    \/ \E line \in DecoderLines : SerReadline(line, TRUE)
    \/ SerIsSet

DecodeSpec == Init /\ [][DecodeNext]_vars

\* ------------------------------------------------------------------------
\* The startup of __main__, from the parsed options to the start of the two
\* threads (main.py:268-324).

MaxTriesArg == 2

MaxTanksArg == 3

MaxTriesOptions == {OptDefault(DefaultMaxTries)} \cup {OptGiven(n) : n \in 1..MaxTriesArg}

NumTanksOptions == {OptDefault(DefaultNumTanks)} \cup {OptGiven(n) : n \in 1..MaxTanksArg}

\* The module is loaded, the options are parsed, tries = 0 and success =
\* False are assigned, no thread exists (main.py:268-275).
StartInit ==
    /\ ModuleLoaded
    /\ pcSer = "not_started"
    /\ pcCmd = "not_started"
    /\ pcMain = "loop_test"
    /\ proc = "running"
    /\ plotOpen = FALSE
    /\ max_tries \in MaxTriesOptions
    /\ num_tanks \in NumTanksOptions
    /\ tries = 0
    /\ success = FALSE
    /\ sleeps = <<>>
    /\ CrcIdle

\* Line 276 with <= in the place of <.
LoopContinuesLe(t, m) == t <= m

\* Line 276: tries < max_tries
LoopContinues(t, m) == t < m

\* Lines 276-277: the loop test and tries += 1.  With --max-tries given,
\* max_tries is a list and the comparison raises TypeError, which nothing
\* catches: the interpreter prints the traceback and exits with status 1.
StartLoopTest ==
    /\ Running /\ pcMain = "loop_test"
    /\ IF max_tries.given
         THEN proc' = "crashed" /\ UNCHANGED <<pcMain, tries>>
         ELSE /\ tries' = IF LoopContinues(tries, max_tries.n) THEN tries + 1 ELSE tries
              /\ pcMain' = IF LoopContinues(tries, max_tries.n) THEN "probe"
                                                                 ELSE "after_loop"
              /\ UNCHANGED proc
    /\ UNCHANGED <<globalVars, dataUpdate, ev_command, ev_read_cmd, ev_quit_sig,
                   ev_quit_ack, serVars, pcCmd, stdinOpen, plotOpen, wire, histVars,
                   max_tries, num_tanks, success, sleeps, crcVars, decVars>>

\* Lines 278-280 and 96-103: the port opens, the probe text is written,
\* check_port_presence returns True; success = True and break.
StartProbeOk ==
    /\ Running /\ pcMain = "probe"
    /\ success' = TRUE
    /\ pcMain' = "after_loop"
    /\ UNCHANGED <<globalVars, dataUpdate, ev_command, ev_read_cmd, ev_quit_sig,
                   ev_quit_ack, serVars, pcCmd, proc, stdinOpen, plotOpen, wire,
                   histVars, max_tries, num_tanks, tries, sleeps, crcVars, decVars>>

\* Lines 100-102 and 281: the probe raises PortNotOpenError;
\* check_port_presence sleeps backoff seconds, backoff being tries, and
\* returns False; the loop prints and goes round.
StartProbeNotOpen ==
    /\ Running /\ pcMain = "probe"
    /\ sleeps' = Append(sleeps, tries)
    /\ pcMain' = "loop_test"
    /\ UNCHANGED <<globalVars, dataUpdate, ev_command, ev_read_cmd, ev_quit_sig,
                   ev_quit_ack, serVars, pcCmd, proc, stdinOpen, plotOpen, wire,
                   histVars, max_tries, num_tanks, tries, success, crcVars, decVars>>

\* Lines 98-99: the probe raises a SerialException that is not
\* PortNotOpenError (the port cannot be opened, the write fails); line 100
\* does not catch it and nothing else does: traceback, exit status 1.
StartProbeFault ==
    /\ Running /\ pcMain = "probe"
    /\ proc' = "crashed"
    /\ UNCHANGED <<globalVars, dataUpdate, ev_command, ev_read_cmd, ev_quit_sig,
                   ev_quit_ack, serVars, pcCmd, pcMain, stdinOpen, plotOpen, wire,
                   histVars, startVars, crcVars, decVars>>

\* Lines 283-287: after the loop, go on if success, else exit(1) (in the
\* main thread: the process ends with status 1).
StartAfterLoop ==
    /\ Running /\ pcMain = "after_loop"
    /\ IF success
         THEN pcMain' = "plot_setup" /\ UNCHANGED proc
         ELSE proc' = "exit1" /\ UNCHANGED pcMain
    /\ UNCHANGED <<globalVars, dataUpdate, ev_command, ev_read_cmd, ev_quit_sig,
                   ev_quit_ack, serVars, pcCmd, stdinOpen, plotOpen, wire, histVars,
                   startVars, crcVars, decVars>>

\* Lines 290-316: the figure is set up and shown.  With --num-tanks given,
\* args.num_tanks is a list and range(args.num_tanks) at line 291 raises
\* TypeError: traceback, exit status 1.
StartPlotSetup ==
    /\ Running /\ pcMain = "plot_setup"
    /\ IF num_tanks.given
         THEN proc' = "crashed" /\ UNCHANGED <<pcMain, plotOpen>>
         ELSE plotOpen' = TRUE /\ pcMain' = "start_threads" /\ UNCHANGED proc
    /\ UNCHANGED <<globalVars, dataUpdate, ev_command, ev_read_cmd, ev_quit_sig,
                   ev_quit_ack, serVars, pcCmd, stdinOpen, wire, histVars,
                   startVars, crcVars, decVars>>

\* Lines 318-324: the transport thread and the input thread are started;
\* the main thread enters its loop.
StartThreads ==
    /\ Running /\ pcMain = "start_threads"
    /\ pcSer' = "readline"
    /\ pcCmd' = "prompt"
    /\ pcMain' = "pause"
    /\ UNCHANGED <<globalVars, dataUpdate, ev_command, ev_read_cmd, ev_quit_sig,
                   ev_quit_ack, withData, message, proc, stdinOpen, plotOpen, wire,
                   histVars, startVars, crcVars, decVars>>

StartNext ==
    \/ StartLoopTest
    \/ StartProbeOk
    \/ StartProbeNotOpen
    \/ StartProbeFault
    \/ StartAfterLoop
    \/ StartPlotSetup
    \/ StartThreads

\* The main thread is the only thread there is and each of its steps
\* returns: the probe has a timeout, the sleep is finite.
StartSpec == StartInit /\ [][StartNext]_vars /\ WF_vars(StartNext)

ThreadsNotStarted == pcSer = "not_started" /\ pcCmd = "not_started"

InConnectLoop == Running /\ pcMain \in {"loop_test", "probe"}

\* ------------------------------------------------------------------------
\* crc16_mcrf4xx (main.py:42-57).  Python integers have no width: a number
\* is the sequence of its binary digits, lowest first, without high zeros,
\* so that no shift loses a digit.

RECURSIVE BitsOf(_)
BitsOf(n) == IF n = 0 THEN <<>> ELSE <<n % 2>> \o BitsOf(n \div 2)

Bit(b, i) == IF i <= Len(b) THEN b[i] ELSE 0

\* The digits of b up to its highest 1.
Trim(b) ==
    LET ones == {i \in 1..Len(b) : b[i] = 1}
    IN  IF ones = {} THEN <<>>
        ELSE SubSeq(b, 1, CHOOSE m \in ones : \A j \in ones : j <= m)

Longer(a, b) == IF Len(a) >= Len(b) THEN Len(a) ELSE Len(b)

\* a ^ b
BitXor(a, b) == Trim([i \in 1..Longer(a, b) |-> (Bit(a, i) + Bit(b, i)) % 2])

\* a | b
BitOr(a, b) == Trim([i \in 1..Longer(a, b) |-> IF Bit(a, i) + Bit(b, i) > 0 THEN 1 ELSE 0])

\* a & b
BitAnd(a, b) == Trim([i \in 1..Longer(a, b) |-> Bit(a, i) * Bit(b, i)])

\* a << k
Shl(a, k) == IF Len(a) = 0 THEN <<>> ELSE [i \in 1..k |-> 0] \o a

\* a >> k
Shr(a, k) == IF Len(a) <= k THEN <<>> ELSE SubSeq(a, k + 1, Len(a))

\* ord(c) for the characters of the texts checked.
Ord(c) ==
    CASE c \in Digits -> 48 + DigitVal(c)
      [] c = "R" -> 82
      [] c = "T" -> 84
      [] c = "Z" -> 90

\* Lines 48-53: one turn of the loop.
CrcByte(crc, c) ==
    LET x == BitXor(crc, BitsOf(Ord(c)))
        L1 == BitXor(x, Shl(x, 4))
        t1 == BitOr(Shl(L1, 3), Shr(L1, 5))
        L2 == BitXor(L1, BitAnd(t1, BitsOf(7)))
        t2 == BitXor(BitXor(BitAnd(t1, BitsOf(248)),
                            BitAnd(BitOr(Shl(t1, 1), Shr(t1, 7)), BitsOf(15))),
                     BitAnd(Shr(x, 8), BitsOf(255)))
    IN  BitOr(Shl(L2, 8), t2)

\* The reference CRC-16/MCRF4XX the function is named after, bit by bit:
\* the byte is folded into a 16-bit register that is shifted right eight
\* times, the reflected polynomial 0x8408 (33800) folded in whenever a 1
\* is shifted out.
RefBit(x) == IF Bit(x, 1) = 1 THEN BitXor(Shr(x, 1), BitsOf(33800)) ELSE Shr(x, 1)

RefByte(crc, c) ==
    LET x0 == BitXor(crc, BitsOf(Ord(c)))
        x1 == RefBit(x0)
        x2 == RefBit(x1)
        x3 == RefBit(x2)
        x4 == RefBit(x3)
        x5 == RefBit(x4)
        x6 == RefBit(x5)
        x7 == RefBit(x6)
    IN  RefBit(x7)

\* Line 43 with and in the place of or.
CrcReturnsSeedAnd(text, length) == Len(text) = 0 /\ length <= 0

\* Line 43: not any(data) or length <= 0; any() of a text is true as soon
\* as the text has a character.
CrcReturnsSeed(text, length) == Len(text) = 0 \/ length <= 0

MaxCrcLen == 2

CrcSeeds == {0, 1, 4660, 65535}

CrcAlphabet == {"1", "2", "T"}

CrcVector == <<"1", "2", "3", "4", "5", "6", "7", "8", "9">>

CrcTexts ==
    UNION {[1..n -> CrcAlphabet] : n \in 0..MaxCrcLen} \cup {CrcVector}

\* A call of crc16_mcrf4xx is about to be made: the module is loaded, the
\* arguments are chosen.
CrcInit ==
    /\ ModuleLoaded
    /\ pcSer = "not_started"
    /\ pcCmd = "not_started"
    /\ pcMain = "loaded"
    /\ proc = "running"
    /\ plotOpen = FALSE
    /\ StartDone
    /\ crcSeed \in CrcSeeds
    /\ crcData \in CrcTexts
    /\ crcLen \in (-1..(MaxCrcLen + 1)) \cup {Len(crcData)}
    /\ crcOut = [raised |-> FALSE, crc |-> BitsOf(crcSeed)]
    /\ crcIndex = 0
    /\ crcLeft = crcLen
    /\ crcRef = BitsOf(crcSeed)
    /\ crcPc = "call"

\* Lines 43-46: the guard; return crc, or index = 0 and enter the loop.
CrcCall ==
    /\ crcPc = "call"
    /\ crcPc' = IF CrcReturnsSeed(crcData, crcLen) THEN "returned" ELSE "loop"
    /\ UNCHANGED <<globalVars, dataUpdate, ev_command, ev_read_cmd, ev_quit_sig,
                   ev_quit_ack, serVars, pcCmd, pcMain, proc, stdinOpen, plotOpen,
                   wire, histVars, startVars, crcSeed, crcData, crcLen, crcOut,
                   crcIndex, crcLeft, crcRef, decVars>>

\* Lines 47-55: one turn of the loop.
CrcTurn ==
    /\ crcPc = "loop" /\ crcLeft > 0 /\ crcIndex < Len(crcData)
    /\ crcOut' = [crcOut EXCEPT !.crc = CrcByte(crcOut.crc, crcData[crcIndex + 1])]
    /\ crcIndex' = crcIndex + 1
    /\ crcLeft' = crcLeft - 1
    /\ crcRef' = RefByte(crcRef, crcData[crcIndex + 1])
    /\ UNCHANGED <<globalVars, dataUpdate, ev_command, ev_read_cmd, ev_quit_sig,
                   ev_quit_ack, serVars, pcCmd, pcMain, proc, stdinOpen, plotOpen,
                   wire, histVars, startVars, crcSeed, crcData, crcLen, crcPc,
                   decVars>>

\* Line 48: data[index] with index past the end of data raises IndexError.
CrcIndexError ==
    /\ crcPc = "loop" /\ crcLeft > 0 /\ crcIndex >= Len(crcData)
    /\ crcOut' = [crcOut EXCEPT !.raised = TRUE]
    /\ crcPc' = "returned"
    /\ UNCHANGED <<globalVars, dataUpdate, ev_command, ev_read_cmd, ev_quit_sig,
                   ev_quit_ack, serVars, pcCmd, pcMain, proc, stdinOpen, plotOpen,
                   wire, histVars, startVars, crcSeed, crcData, crcLen, crcIndex,
                   crcLeft, crcRef, decVars>>

\* Lines 47 and 57: the loop is over, return crc.
CrcReturn ==
    /\ crcPc = "loop" /\ crcLeft <= 0
    /\ crcPc' = "returned"
    /\ UNCHANGED <<globalVars, dataUpdate, ev_command, ev_read_cmd, ev_quit_sig,
                   ev_quit_ack, serVars, pcCmd, pcMain, proc, stdinOpen, plotOpen,
                   wire, histVars, startVars, crcSeed, crcData, crcLen, crcOut,
                   crcIndex, crcLeft, crcRef, decVars>>

CrcNext == CrcCall \/ CrcTurn \/ CrcIndexError \/ CrcReturn

CrcSpec == CrcInit /\ [][CrcNext]_vars

\* ------------------------------------------------------------------------
\* The program with the log of accepted commands kept: the history
\* variable accepted records the three globals at each ev_command.set()
\* (main.py:221).

HistCommands == {"quit", "t", "c1", "x"}

HistNext ==
    \/ SerialStep(LiveLines, FALSE)
    \/ InputStep(HistCommands, Tanks, LiveMasses, TRUE)
    \/ MainStep

HistSpec == Init /\ [][HistNext]_vars

\* The frame run_serial builds when the three globals hold the command
\* cmd = <<command, tankNumber, data>> throughout (main.py:168-171).
FrameOf(cmd) ==
    IF cmd[1] \in {"c1", "c2"}
      THEN <<cmd[1], "(", cmd[2], ")", ":", cmd[3], "\n">>
      ELSE <<cmd[1], "(", cmd[2], ")", "\n">>

\* Nothing is pending: the input thread is at its prompt, ev_command is
\* clear and the transport thread, alive, is reading.
Quiescent ==
    /\ Running /\ pcCmd = "prompt" /\ ~ev_command
    /\ pcSer \in {"readline", "is_set"}

\* ------------------------------------------------------------------------
\* Claims.

\* C1: between the moment the input thread sets ev_command and the moment
\* its wait on ev_read_cmd returns, ser.write is executed at most once.
C1_SingleWriteInWindow == winWrites <= 1

\* C2: whenever the input thread is at the ">> " prompt, ev_command is clear
\* and the transport thread is not between ev_command.clear() and the end of
\* ser.write for an earlier command.
C2_PromptOnlyWhenIdle ==
    (Running /\ pcCmd = "prompt") => (~ev_command /\ ~SerSending)

\* C3: ev_read_cmd.set() is called for a command only after ser.write has
\* returned for it: the done signals raised never outnumber the frames
\* written.
C3_DoneAfterWrite == nDone <= nWrites

\* C4: once the input thread has set ev_command and waits on ev_read_cmd, it
\* comes back to the ">> " prompt, whatever the transport thread does.
C4_InputNeverStuck == (pcCmd = "wait") ~> (pcCmd = "prompt")

\* C4 witness: the input thread is back at the prompt after a wait that
\* timed out, the transport thread having ended.
C4_Witness == pcCmd = "prompt" /\ lastWait = "timeout" /\ SerStopped /\ ev_command

\* C5: a transport fault after the session is established ends the process:
\* in no state has the transport thread stopped on a fault while the process
\* runs on, the input thread taking commands and the main loop rendering.
C5_FaultIsFatal ==
    ~(SerStopped /\ Running /\ pcCmd = "prompt" /\ stdinOpen /\ pcMain = "pause" /\ plotOpen)

\* C6: no frame is produced for the operator's quit: no message handed to
\* ser.write has quit as its opcode.
C6_QuitMakesNoFrame == wire # <<>> => FrameOpcode(wire) # "quit"

\* C7: the process is killed only after the main loop has closed the figure.
C7_KillAfterTeardown == proc = "killed" => ~plotOpen

\* C7 amended: when ev_quit_ack.wait(1) returned because the acknowledgement
\* was set, the figure has been closed (and the shutdown signal cleared) by
\* the time of the kill.
C7_AckedKillAfterTeardown ==
    (quitWait = "ack") => (~plotOpen /\ ~ev_quit_sig)

\* C7 witness: a kill that followed the acknowledgement.
C7_Witness == proc = "killed" /\ quitWait = "ack" /\ ~plotOpen

\* C8: the accept signal is set for a calibration command only after two
\* mass values have been gathered.
C8_TwoMassesBeforeFrame ==
    (pcCmd = "wait" /\ NeedsMass(command)) => NumMass(inputs) = 2

\* C8 amended: the input thread sets the accept signal for c1 or c2 only
\* after it has gathered, in this order, the tank number and one mass value.
C8_TankThenOneMass ==
    (pcCmd \in {"accept", "wait", "clear"} /\ command \in {"c1", "c2"})
        => inputs = <<"tank", "mass">>

\* C8 witness: c1 accepted with its tank number and its one mass.
C8_Witness ==
    pcCmd = "wait" /\ command = "c1" /\ inputs = <<"tank", "mass">> /\ IsFloat(data) /\ ev_command

\* C9: a mass the operator typed that is no number is in no frame written.
C9_InvalidMassNoFrame ==
    (wire # <<>> /\ FrameHasData(wire) /\ FrameData(wire) \in Masses)
        => IsFloat(FrameData(wire))

\* C10: an answer to the ">> " prompt that is no command is the opcode of no
\* frame written.
C10_UnknownNeverOpcode ==
    wire # <<>> => FrameOpcode(wire) \notin (Commands \ KnownCommands)

\* C11: a malformed inbound line (a missing ';' or ':', a tank id or a value
\* that is no number, the empty line, a line without its closing bracket)
\* leaves every entry of dataUpdate as it was.
C11_MalformedLeavesTable ==
    decLine \in MalformedLines => dataUpdate = decBefore

\* C12: a well-formed inbound line whose tank id is outside 0..N-1, too
\* large or negative, changes no entry of dataUpdate.
C12_OutOfRangeDropped ==
    decLine \in OutOfRangeLines => dataUpdate = decBefore

\* The lines "[tank:i;data:v]" of the decoder runs with the tank id and the
\* value (in tenths) they spell.
WellFormedSamples ==
    { [line |-> LineTank1, id |-> 1, tenths |-> 125],
      [line |-> LineTank0, id |-> 0, tenths |-> 25],
      [line |-> LineTank0Whole, id |-> 0, tenths |-> 30] }

\* C13: a well-formed inbound line "[tank:i;data:v]" with i a valid tank id
\* sets entry i of dataUpdate to v and leaves every other entry as it was.
C13_WellFormedSetsEntry ==
    \A s \in WellFormedSamples :
        decLine = s.line => dataUpdate = [decBefore EXCEPT ![s.id + 1] = s.tenths]

\* C13 witness: "[tank:1;data:12.5]" has set entry 1 to 12.5 and left the
\* 2.5 of entry 0 alone.
C13_Witness ==
    /\ decLine = LineTank1 /\ pcSer = "is_set"
    /\ decBefore = <<25, 0>>
    /\ dataUpdate = <<25, 125>>


\* C14: in every reachable state dataUpdate has exactly as many entries as
\* the configured tank count num_tanks, one for each tank id 0..num_tanks-1.
C14_TableHasNumTanksEntries ==
    Len(dataUpdate) = num_tanks.n

\* C15: the startup loop probes the port at most max_tries times; the k-th
\* failed probe is followed by a sleep of k seconds; a successful probe ends
\* the loop; when all max_tries probes have failed the process exits with
\* status 1 and the two threads are never started; the loop terminates.
C15_BoundedRetry ==
    /\ [](/\ tries <= max_tries.n
          /\ Len(sleeps) <= tries
          /\ \A k \in 1..Len(sleeps) : sleeps[k] = k
          /\ success => ~InConnectLoop
          /\ (pcMain = "after_loop" /\ ~success) => Len(sleeps) = max_tries.n
          /\ proc = "exit1" => (Len(sleeps) = max_tries.n /\ ~success)
          /\ proc \in {"exit1", "crashed"} => ThreadsNotStarted)
    /\ [][proc = "exit1" => proc' = "exit1"]_vars
    /\ (pcMain = "after_loop" /\ ~success) ~> (proc = "exit1")
    /\ <>(~InConnectLoop)

\* C15 witness: five probes have failed, with sleeps of 1, 2, 3, 4 and 5
\* seconds, the process has exited and no thread was started.
C15_Witness ==
    /\ proc = "exit1" /\ sleeps = <<1, 2, 3, 4, 5>> /\ tries = 5
    /\ ThreadsNotStarted

\* C16: every frame written to the transport ends with '/', the decimal
\* CRC16 of the text before it, and ';'.  The formula states the two
\* delimiters alone: the last piece of the frame is ';' and a '/' stands
\* before the checksum.
C16_FrameHasChecksum ==
    wire # <<>> =>
        /\ wire[Len(wire)] = ";"
        /\ \E k \in 1..Len(wire) : wire[k] \in {"/"}

\* C17: called with length equal to the length of the text,
\* crc16_mcrf4xx returns what the reference CRC-16/MCRF4XX returns, a value
\* of at most 16 bits.
C17_CrcIsReference ==
    (crcPc = "returned" /\ crcLen = Len(crcData)) =>
        /\ ~crcOut.raised
        /\ Len(crcOut.crc) <= 16
        /\ crcOut.crc = crcRef

\* C18: crc16_mcrf4xx(seed, data, 0) returns seed for every data, and
\* crc16_mcrf4xx(seed, empty data, n) returns seed for every n; nothing is
\* raised.
C18_DegenerateReturnsSeed ==
    (crcPc = "returned" /\ (crcLen = 0 \/ Len(crcData) = 0)) =>
        crcOut = [raised |-> FALSE, crc |-> BitsOf(crcSeed)]

\* C18 witness: the empty text with length 1 and seed 0xFFFF has returned
\* the seed.
C18_Witness ==
    /\ crcPc = "returned" /\ Len(crcData) = 0 /\ crcLen = 1 /\ crcSeed = 65535
    /\ crcOut = [raised |-> FALSE, crc |-> BitsOf(65535)]

\* C19: every frame the transport thread writes is the frame of one
\* accepted command: its opcode, tank number and payload are those of one
\* and the same operator command.
C19_FrameFromOneCommand ==
    wire # <<>> => \E k \in 1..Len(accepted) : wire = FrameOf(accepted[k])

\* C20: the frames written never outnumber the commands accepted, and when
\* nothing is pending and the transport thread has had no fault every
\* accepted command has been written: no two of them were coalesced into
\* one frame, none was lost.
C20_EveryAcceptWritten ==
    /\ nWrites <= Len(accepted)
    /\ Quiescent => nWrites = Len(accepted)

====
